---- MODULE Spec2Model ----
(***************************************************************************)
(* Run orchestration of the UAM backend: the four Celery stage tasks of    *)
(* app/workers/tasks.py, the chain start_run builds from them, the         *)
(* synchronous EDA handler, the AutoML training invocations and the        *)
(* ranking of their per-family results.                                    *)
(*                                                                         *)
(* Progress fractions are modelled in hundredths (0.25 is 25, 1.0 is 100). *)
(* A Session commit that has to flush a new row may fail; SQLAlchemy then  *)
(* leaves the Session inactive until rollback() is called, so every later  *)
(* commit through the same Session raises.                                 *)
(***************************************************************************)
EXTENDS Integers, Sequences, FiniteSets, TLC

\* Number of Run rows the stage pipeline is explored with.
MaxRuns == 2

RunIds == 1..MaxRuns

NULL == "NULL"

\* The stage tasks in the order start_run chains them.
Chain == <<"preprocess_data", "run_eda", "train_models", "finalize_run">>

VARIABLES
    run,        \* run[r]: the committed Run row (status "NONE": no row yet)
    pc,         \* pc[r]: position of the stage chain of Run r
    stage,      \* stage[r]: index in Chain of the task queued or executing
    nargs,      \* nargs[r]: positional arguments of the queued task message
    link,       \* link[r]: how the stages of Run r are linked
    session,    \* session[r]: the SessionLocal() of the executing task
    logs,       \* logs[r]: Log rows of Run r, oldest first
    artifacts,  \* artifacts[r]: types of the committed Artifact rows
    blobs,      \* blobs[r]: object-store keys written for Run r
    executed,   \* executed[r]: stage tasks whose body was entered, in order
    raised,     \* raised[r]: the stage task that raised, or NULL
    response    \* what the last start_run request returned

pvars == <<run, pc, stage, nargs, link, session, logs, artifacts, blobs,
           executed, raised, response>>

VARIABLES
    tfn,        \* the training function invoked, or NULL
    task_type,  \* its task_type argument
    tpc,        \* position of the training invocation
    trun,       \* the Run row the invocation created
    ti,         \* index of the catalog family the loop is at
    results,    \* the results list of the training loop
    fitted,     \* fitted[name]: what the fit of that family did
    pending,    \* names of the ModelMeta rows added to the Session
    metas,      \* names of the committed ModelMeta rows
    uploaded,   \* object-store keys written by the invocation
    events,     \* messages passed to manager.broadcast, oldest first
    wfail,      \* a storage or database write of the invocation failed
    best_model  \* the best_model the invocation returned

tvars == <<tfn, task_type, tpc, trun, ti, results, fitted, pending, metas,
           uploaded, events, wfail, best_model>>

VARIABLES
    active_connections, \* active_connections[p]: the list the dict holds
                        \* for project p (<<>> when it has no such key)
    dict_keys,          \* the keys of the dict
    sock,               \* sock[w]: "new", "open" (its handler waits in
                        \* receive_text) or "closed" (its handler ended)
    sproj,              \* sproj[w]: the project_id of the socket's path
    inbox,              \* inbox[w]: messages send_json delivered, in order
    pubs,               \* project_id of every broadcast call, in call order
    bpc,                \* position of the latest broadcast call
    bidx,               \* elements its list iterator has handed out
    bcur,               \* the socket whose send_json it awaits
    blive,              \* the iterated list is still the registered one
    bsnap,              \* sockets registered when the call was made
    bfailed,            \* sockets whose send_json raised in this call;
                        \* logging.error recorded each of them
    disconnect_result   \* what the disconnect call of the last step did

cvars == <<active_connections, dict_keys, sock, sproj, inbox, pubs, bpc, bidx,
           bcur, blive, bsnap, bfailed, disconnect_result>>

VARIABLES
    stt,            \* task_type of the train_models_with_progress call
    spc,            \* position inside its family loop
    si,             \* catalog index of the family of the current pass
    sj,             \* index of the parameter combination the sweep is at
    sbest_score,    \* best_score of the sweep
    sbest_params,   \* best_params: the combination kept (0: {})
    sbest_model,    \* best_model: the temp_model kept (0: the catalog's
                    \* own estimator object)
    tuning_results, \* tuning_results of the sweep
    default_fit,    \* what fit of the catalog's own estimator did
    sentry,         \* the entry the pass appended to results
    sevents         \* messages broadcast since the pass began

svars == <<stt, spc, si, sj, sbest_score, sbest_params, sbest_model,
           tuning_results, default_fit, sentry, sevents>>

vars == <<pvars, tvars, cvars, svars>>

\* Run(...) as start_run constructs it; started_at and finished_at are never
\* passed and the columns have no default.
NoRun ==
    [status |-> "NONE", current_task |-> NULL, progress |-> 0,
     started_at |-> NULL, finished_at |-> NULL]

PendingRun ==
    [status |-> "PENDING", current_task |-> NULL, progress |-> 0,
     started_at |-> NULL, finished_at |-> NULL]

\* Positional parameters of each task after the bound self.
Arity(s) == IF Chain[s] = "preprocess_data" THEN 2 ELSE 1

\* Arguments written in the signature of stage s by start_run.
OwnArgs(s) == IF Chain[s] = "preprocess_data" THEN 2 ELSE 1

\* Arguments of the message Celery sends for stage s: a partial signature
\* (.s) of a stage that has a parent gets the parent's return value prepended.
MessageArgs(s, l) == OwnArgs(s) + (IF s > 1 /\ l = "partial" THEN 1 ELSE 0)

\* log_message: db.add(log); db.commit()
log_message(r, level, message) ==
    logs' = [logs EXCEPT ![r] = Append(@, <<level, message>>)]

\* The chain enqueues the next stage once the current one returned.
EnqueueNext(r) ==
    IF stage[r] < Len(Chain)
    THEN /\ stage' = [stage EXCEPT ![r] = @ + 1]
         /\ nargs' = [nargs EXCEPT ![r] = MessageArgs(stage[r] + 1, link[r])]
         /\ pc' = [pc EXCEPT ![r] = "queued"]
    ELSE /\ pc' = [pc EXCEPT ![r] = "finished"]
         /\ UNCHANGED <<stage, nargs>>

\* The answer of a start_run request, with what its lookups found.
Response(project_found, dataset_found, code, detail) ==
    [project_found |-> project_found, dataset_found |-> dataset_found,
     code |-> code, detail |-> detail]

NoResponse == Response(TRUE, TRUE, 0, NULL)

\* A check of the project alone.
start_run_accepts_any_dataset(project_found, dataset_found) == project_found

\* if not project / if not dataset: the request goes on only when the
\* project is the caller's and the dataset belongs to it.
start_run_accepts(project_found, dataset_found) ==
    project_found /\ dataset_found

\* start_run: a missing project or dataset is answered 404 before anything
\* is written; else the Run row is committed PENDING with progress 0.0 and
\* the chain of partial signatures is sent; only its first message exists
\* yet.
start_run(r) ==
    /\ run[r].status = "NONE"
    /\ \E project_found, dataset_found \in BOOLEAN :
        IF start_run_accepts(project_found, dataset_found)
        THEN /\ run' = [run EXCEPT ![r] = PendingRun]
             /\ link' = [link EXCEPT ![r] = "partial"]
             /\ stage' = [stage EXCEPT ![r] = 1]
             /\ nargs' = [nargs EXCEPT ![r] = MessageArgs(1, "partial")]
             /\ pc' = [pc EXCEPT ![r] = "queued"]
             /\ response' = Response(project_found, dataset_found, 200, NULL)
        ELSE /\ response' = Response(project_found, dataset_found, 404,
                                    IF ~project_found
                                    THEN "Project not found"
                                    ELSE "Dataset not found")
             /\ UNCHANGED <<run, link, stage, nargs, pc>>
    /\ UNCHANGED <<session, logs, artifacts, blobs, executed, raised>>
    /\ UNCHANGED <<tvars, cvars, svars>>

\* The stage tasks are registered with the worker one by one; a producer that
\* sends each of them with the Run id alone, the next after the previous
\* returned, drives the same Run through the same stage order.
send_stages(r) ==
    /\ run[r].status = "NONE"
    /\ run' = [run EXCEPT ![r] = PendingRun]
    /\ link' = [link EXCEPT ![r] = "immutable"]
    /\ stage' = [stage EXCEPT ![r] = 1]
    /\ nargs' = [nargs EXCEPT ![r] = MessageArgs(1, "immutable")]
    /\ pc' = [pc EXCEPT ![r] = "queued"]
    /\ UNCHANGED <<session, logs, artifacts, blobs, executed, raised>>
    /\ UNCHANGED <<response, tvars, cvars, svars>>

\* A message whose arguments the task's signature does not accept: the call
\* raises TypeError before the body runs, the chain stops, no row is touched.
task_call_rejected(r) ==
    /\ pc[r] = "queued"
    /\ nargs[r] # Arity(stage[r])
    /\ pc' = [pc EXCEPT ![r] = "raised"]
    /\ raised' = [raised EXCEPT ![r] = Chain[stage[r]]]
    /\ UNCHANGED <<run, stage, nargs, link, session, logs, artifacts, blobs,
                   executed>>
    /\ UNCHANGED <<response, tvars, cvars, svars>>

\* Entry of a task body: SessionLocal(), the Run is found.
Enter(r, name) ==
    /\ pc[r] = "queued"
    /\ Chain[stage[r]] = name
    /\ nargs[r] = Arity(stage[r])
    /\ session' = [session EXCEPT ![r] = "active"]
    /\ executed' = [executed EXCEPT ![r] = Append(@, name)]
    /\ pc' = [pc EXCEPT ![r] = "started"]

\* except Exception of a stage task: log_message(ERROR), then
\* run.status = "FAILED" and commit, then re-raise. log_message commits
\* through the task's Session: when that Session is inactive (sess) it
\* raises and the handler is left before the status is written.
TaskExcept(r, message, sess) ==
    /\ pc' = [pc EXCEPT ![r] = "raised"]
    /\ raised' = [raised EXCEPT ![r] = Chain[stage[r]]]
    /\ session' = [session EXCEPT ![r] = sess]
    /\ IF sess = "active"
       THEN /\ log_message(r, "ERROR", message)
            /\ run' = [run EXCEPT ![r].status = "FAILED"]
       ELSE UNCHANGED <<run, logs>>

\* The body step between the first commit and the Artifact commit: the input
\* is read and the stage's blobs are put; any of it may raise.
PutStep(r, name, keys, message) ==
    /\ pc[r] = "started"
    /\ Chain[stage[r]] = name
    /\ \E ok \in BOOLEAN :
        IF ok
        THEN /\ blobs' = [blobs EXCEPT ![r] = @ \cup keys]
             /\ pc' = [pc EXCEPT ![r] = "stored"]
             /\ UNCHANGED <<run, logs, raised, session>>
        ELSE /\ TaskExcept(r, message, "active")
             /\ UNCHANGED blobs
    /\ UNCHANGED <<stage, nargs, link, artifacts, executed>>
    /\ UNCHANGED <<response, tvars, cvars, svars>>

\* db.add(artifact); db.commit(): the flush of the new rows may fail, which
\* leaves the Session inactive, and the except clause runs.
CommitArtifactStep(r, name, types, message) ==
    /\ pc[r] = "stored"
    /\ Chain[stage[r]] = name
    /\ \E ok \in BOOLEAN :
        IF ok
        THEN /\ artifacts' = [artifacts EXCEPT ![r] = @ \cup types]
             /\ pc' = [pc EXCEPT ![r] = "committed"]
             /\ UNCHANGED <<run, logs, raised, session>>
        ELSE /\ TaskExcept(r, message, "inactive")
             /\ UNCHANGED artifacts
    /\ UNCHANGED <<stage, nargs, link, blobs, executed>>
    /\ UNCHANGED <<response, tvars, cvars, svars>>

----------------------------------------------------------------------------
\* preprocess_data

preprocess_data_start(r) ==
    /\ Enter(r, "preprocess_data")
    /\ run' = [run EXCEPT ![r].status = "RUNNING",
                          ![r].current_task = "Preprocessing"]
    /\ UNCHANGED <<stage, nargs, link, logs, artifacts, blobs, raised>>
    /\ UNCHANGED <<response, tvars, cvars, svars>>

preprocess_data_put(r) ==
    PutStep(r, "preprocess_data", {"cleaned_dataset"}, "Preprocessing failed")

preprocess_data_commit(r) ==
    CommitArtifactStep(r, "preprocess_data", {"cleaned_dataset"},
                       "Preprocessing failed")

preprocess_data_finish(r) ==
    /\ pc[r] = "committed"
    /\ Chain[stage[r]] = "preprocess_data"
    /\ run' = [run EXCEPT ![r].progress = 25]
    /\ log_message(r, "INFO", "Preprocessing completed successfully.")
    /\ EnqueueNext(r)
    /\ UNCHANGED <<link, session, artifacts, blobs, executed, raised>>
    /\ UNCHANGED <<response, tvars, cvars, svars>>

----------------------------------------------------------------------------
\* run_eda

run_eda_start(r) ==
    /\ Enter(r, "run_eda")
    /\ run' = [run EXCEPT ![r].status = "RUNNING",
                          ![r].current_task = "EDA"]
    /\ UNCHANGED <<stage, nargs, link, logs, artifacts, blobs, raised>>
    /\ UNCHANGED <<response, tvars, cvars, svars>>

\* Artifact rows added to the Session when the chart is about to be put,
\* had the chart's row been added ahead of its blob.
PendingAtChartPutWithChart == {"eda_summary", "eda_chart"}

\* Artifact rows added to the Session and not yet committed when the chart
\* is put: db.add(artifact_summary) comes before, db.add(artifact_chart)
\* after the chart's put_object.
PendingAtChartPut == {"eda_summary"}

\* The summary is put and its row added, then a histogram is put when the
\* dataset has a numeric column. When the chart's put raises, the commit of
\* log_message in the except clause flushes the pending summary row with
\* the Log row, or fails on it and leaves the Session inactive.
run_eda_put(r) ==
    /\ pc[r] = "started"
    /\ Chain[stage[r]] = "run_eda"
    /\ \E outcome \in {"no_chart", "chart", "summary_raises", "chart_raises"},
          flushed \in BOOLEAN :
        CASE outcome = "no_chart" ->
                /\ blobs' = [blobs EXCEPT ![r] = @ \cup {"eda_summary"}]
                /\ pc' = [pc EXCEPT ![r] = "stored"]
                /\ UNCHANGED <<run, logs, raised, session, artifacts>>
          [] outcome = "chart" ->
                /\ blobs' = [blobs EXCEPT ![r] =
                                @ \cup {"eda_summary", "eda_chart"}]
                /\ pc' = [pc EXCEPT ![r] = "stored"]
                /\ UNCHANGED <<run, logs, raised, session, artifacts>>
          [] outcome = "summary_raises" ->
                /\ TaskExcept(r, "EDA failed", "active")
                /\ UNCHANGED <<blobs, artifacts>>
          [] outcome = "chart_raises" ->
                /\ blobs' = [blobs EXCEPT ![r] = @ \cup {"eda_summary"}]
                /\ IF flushed
                   THEN /\ artifacts' = [artifacts EXCEPT ![r] =
                                            @ \cup PendingAtChartPut]
                        /\ TaskExcept(r, "EDA failed", "active")
                   ELSE /\ TaskExcept(r, "EDA failed", "inactive")
                        /\ UNCHANGED artifacts
    /\ UNCHANGED <<stage, nargs, link, executed>>
    /\ UNCHANGED <<response, tvars, cvars, svars>>

run_eda_commit(r) ==
    CommitArtifactStep(r, "run_eda", blobs[r] \cap {"eda_summary", "eda_chart"},
                       "EDA failed")

run_eda_finish(r) ==
    /\ pc[r] = "committed"
    /\ Chain[stage[r]] = "run_eda"
    /\ run' = [run EXCEPT ![r].progress = 100,
                          ![r].status = "COMPLETED",
                          ![r].current_task = NULL]
    /\ log_message(r, "INFO", "EDA completed successfully.")
    /\ EnqueueNext(r)
    /\ UNCHANGED <<link, session, artifacts, blobs, executed, raised>>
    /\ UNCHANGED <<response, tvars, cvars, svars>>

----------------------------------------------------------------------------
\* train_models

train_models_start(r) ==
    /\ Enter(r, "train_models")
    /\ run' = [run EXCEPT ![r].current_task = "Training"]
    /\ UNCHANGED <<stage, nargs, link, logs, artifacts, blobs, raised>>
    /\ UNCHANGED <<response, tvars, cvars, svars>>

\* The cleaned dataset is looked up among the Run's Artifact rows, read,
\* fitted and the model put.
train_models_put(r) ==
    /\ pc[r] = "started"
    /\ Chain[stage[r]] = "train_models"
    /\ \E ok \in BOOLEAN :
        IF ok /\ "cleaned_dataset" \in artifacts[r]
        THEN /\ blobs' = [blobs EXCEPT ![r] = @ \cup {"model"}]
             /\ pc' = [pc EXCEPT ![r] = "stored"]
             /\ UNCHANGED <<run, logs, raised, session>>
        ELSE /\ TaskExcept(r, "Training failed", "active")
             /\ UNCHANGED blobs
    /\ UNCHANGED <<stage, nargs, link, artifacts, executed>>
    /\ UNCHANGED <<response, tvars, cvars, svars>>

train_models_commit(r) ==
    CommitArtifactStep(r, "train_models", {"model"}, "Training failed")

train_models_finish(r) ==
    /\ pc[r] = "committed"
    /\ Chain[stage[r]] = "train_models"
    /\ run' = [run EXCEPT ![r].progress = 75]
    /\ log_message(r, "INFO", "Model training completed successfully.")
    /\ EnqueueNext(r)
    /\ UNCHANGED <<link, session, artifacts, blobs, executed, raised>>
    /\ UNCHANGED <<response, tvars, cvars, svars>>

----------------------------------------------------------------------------
\* finalize_run

finalize_run_start(r) ==
    /\ Enter(r, "finalize_run")
    /\ run' = [run EXCEPT ![r].current_task = "Finalizing"]
    /\ UNCHANGED <<stage, nargs, link, logs, artifacts, blobs, raised>>
    /\ UNCHANGED <<response, tvars, cvars, svars>>

finalize_run_put(r) ==
    PutStep(r, "finalize_run", {"report"}, "Finalization failed")

\* The report's Artifact row and the terminal Run fields go in one commit.
finalize_run_finish(r) ==
    /\ pc[r] = "stored"
    /\ Chain[stage[r]] = "finalize_run"
    /\ \E ok \in BOOLEAN :
        IF ok
        THEN /\ artifacts' = [artifacts EXCEPT ![r] = @ \cup {"report"}]
             /\ run' = [run EXCEPT ![r].status = "COMPLETED",
                                   ![r].progress = 100,
                                   ![r].current_task = NULL]
             /\ log_message(r, "INFO", "Run finalized successfully.")
             /\ EnqueueNext(r)
             /\ UNCHANGED <<raised, session>>
        ELSE /\ TaskExcept(r, "Finalization failed", "inactive")
             /\ UNCHANGED <<artifacts, stage, nargs>>
    /\ UNCHANGED <<link, blobs, executed>>
    /\ UNCHANGED <<response, tvars, cvars, svars>>

----------------------------------------------------------------------------
\* run_eda_sync and the request handlers that call it

\* start_eda / generate_project_eda: the Run row is committed PENDING and
\* run_eda_sync is called with its id.
start_eda(r) ==
    /\ run[r].status = "NONE"
    /\ \E label \in {NULL, "Starting EDA"} :
        run' = [run EXCEPT ![r] = [PendingRun EXCEPT !.current_task = label]]
    /\ link' = [link EXCEPT ![r] = "sync"]
    /\ pc' = [pc EXCEPT ![r] = "sync_called"]
    /\ session' = [session EXCEPT ![r] = "active"]
    /\ UNCHANGED <<stage, nargs, logs, artifacts, blobs, executed, raised>>
    /\ UNCHANGED <<response, tvars, cvars, svars>>

\* A commit of run_eda_sync that only updates the Run row.
SyncCommit(r, from, to, task, progress) ==
    /\ pc[r] = from
    /\ run' = [run EXCEPT ![r].status = "RUNNING",
                          ![r].current_task = task,
                          ![r].progress = progress]
    /\ pc' = [pc EXCEPT ![r] = to]
    /\ UNCHANGED <<stage, nargs, link, session, logs, artifacts, blobs,
                   executed, raised>>
    /\ UNCHANGED <<response, tvars, cvars, svars>>

\* except Exception of run_eda_sync: run.status = "FAILED"; db.commit();
\* raise. Nothing is logged; with an inactive Session the commit raises.
SyncExcept(r, sess) ==
    /\ pc' = [pc EXCEPT ![r] = "sync_raised"]
    /\ session' = [session EXCEPT ![r] = sess]
    /\ run' = IF sess = "active"
              THEN [run EXCEPT ![r].status = "FAILED"]
              ELSE run

run_eda_sync_start(r) == SyncCommit(r, "sync_called", "sync_10", "EDA", 10)

run_eda_sync_load(r) ==
    SyncCommit(r, "sync_10", "sync_20", "Loading dataset", 20)

\* The dataset is looked up and read from storage, which may raise.
run_eda_sync_read(r) ==
    /\ pc[r] = "sync_20"
    /\ \E ok \in BOOLEAN :
        IF ok
        THEN /\ run' = [run EXCEPT ![r].progress = 40,
                                   ![r].current_task = "Analyzing data structure"]
             /\ pc' = [pc EXCEPT ![r] = "sync_40"]
             /\ UNCHANGED session
        ELSE SyncExcept(r, "active")
    /\ UNCHANGED <<stage, nargs, link, logs, artifacts, blobs, executed, raised>>
    /\ UNCHANGED <<response, tvars, cvars, svars>>

run_eda_sync_summary(r) ==
    /\ pc[r] = "sync_40"
    /\ run' = [run EXCEPT ![r].progress = 60,
                          ![r].current_task = "Generating summary statistics"]
    /\ pc' = [pc EXCEPT ![r] = "sync_60"]
    /\ UNCHANGED <<stage, nargs, link, session, logs, artifacts, blobs,
                   executed, raised>>
    /\ UNCHANGED <<response, tvars, cvars, svars>>

\* The summary is put, its Artifact row added and committed together with
\* progress 0.8.
run_eda_sync_put(r) ==
    /\ pc[r] = "sync_60"
    /\ \E out \in {"ok", "put_raises", "commit_raises"} :
        CASE out = "ok" ->
                /\ blobs' = [blobs EXCEPT ![r] = @ \cup {"eda_summary"}]
                /\ artifacts' = [artifacts EXCEPT ![r] = @ \cup {"eda_summary"}]
                /\ run' = [run EXCEPT ![r].progress = 80,
                                      ![r].current_task = "Generating visualizations"]
                /\ pc' = [pc EXCEPT ![r] = "sync_80"]
                /\ UNCHANGED session
          [] out = "put_raises" ->
                /\ SyncExcept(r, "active")
                /\ UNCHANGED <<blobs, artifacts>>
          [] out = "commit_raises" ->
                /\ blobs' = [blobs EXCEPT ![r] = @ \cup {"eda_summary"}]
                /\ SyncExcept(r, "inactive")
                /\ UNCHANGED artifacts
    /\ UNCHANGED <<stage, nargs, link, logs, executed, raised>>
    /\ UNCHANGED <<response, tvars, cvars, svars>>

\* With a numeric column the histogram is put and its Artifact row added;
\* db.commit() follows in either case.
run_eda_sync_chart(r) ==
    /\ pc[r] = "sync_80"
    /\ \E out \in {"no_chart", "ok", "put_raises", "commit_raises"} :
        CASE out = "no_chart" ->
                /\ pc' = [pc EXCEPT ![r] = "sync_charted"]
                /\ UNCHANGED <<run, session, blobs, artifacts>>
          [] out = "ok" ->
                /\ blobs' = [blobs EXCEPT ![r] = @ \cup {"eda_chart"}]
                /\ artifacts' = [artifacts EXCEPT ![r] = @ \cup {"eda_chart"}]
                /\ pc' = [pc EXCEPT ![r] = "sync_charted"]
                /\ UNCHANGED <<run, session>>
          [] out = "put_raises" ->
                /\ SyncExcept(r, "active")
                /\ UNCHANGED <<blobs, artifacts>>
          [] out = "commit_raises" ->
                /\ blobs' = [blobs EXCEPT ![r] = @ \cup {"eda_chart"}]
                /\ SyncExcept(r, "inactive")
                /\ UNCHANGED artifacts
    /\ UNCHANGED <<stage, nargs, link, logs, executed, raised>>
    /\ UNCHANGED <<response, tvars, cvars, svars>>

run_eda_sync_finish(r) ==
    /\ pc[r] = "sync_charted"
    /\ run' = [run EXCEPT ![r].progress = 100,
                          ![r].status = "COMPLETED",
                          ![r].current_task = NULL]
    /\ pc' = [pc EXCEPT ![r] = "finished"]
    /\ UNCHANGED <<stage, nargs, link, session, logs, artifacts, blobs,
                   executed, raised>>
    /\ UNCHANGED <<response, tvars, cvars, svars>>

\* except Exception of the request handler around run_eda_sync: the handler
\* writes FAILED through its own Session and answers 500.
start_eda_except(r) ==
    /\ pc[r] = "sync_raised"
    /\ run' = [run EXCEPT ![r].status = "FAILED"]
    /\ pc' = [pc EXCEPT ![r] = "raised"]
    /\ raised' = [raised EXCEPT ![r] = "run_eda_sync"]
    /\ UNCHANGED <<stage, nargs, link, session, logs, artifacts, blobs, executed>>
    /\ UNCHANGED <<response, tvars, cvars, svars>>

----------------------------------------------------------------------------
\* AutoML training invocations

\* Largest primary score of the explored fits (scores are whole units).
MaxScore == 1

\* float('-inf'), below every score a fit can return.
NegInf == 0 - (MaxScore + 1)

TrainFns ==
    {"train_auto_ml_with_progress", "train_auto_ml_with_custom_params",
     "train_auto_ml"}

TaskTypes == {"binary_classification", "multiclass_classification", "regression"}

IsClassification(tt) ==
    tt \in {"binary_classification", "multiclass_classification"}

\* The catalog of model families, in the order the training loop visits them.
Catalog(fn, tt) ==
    IF IsClassification(tt)
    THEN IF fn = "train_auto_ml"
         THEN <<"Logistic Regression", "Random Forest", "XGBoost", "SVM",
                "Decision Tree", "Naive Bayes", "K-Nearest Neighbors">>
         ELSE <<"Logistic Regression", "Random Forest", "SVM",
                "Decision Tree", "Naive Bayes", "K-Nearest Neighbors">>
    ELSE <<"Linear Regression", "Random Forest", "SVR", "Decision Tree",
           "K-Nearest Neighbors">>

Families ==
    {"Logistic Regression", "Linear Regression", "Random Forest", "XGBoost",
     "SVM", "SVR", "Decision Tree", "Naive Bayes", "K-Nearest Neighbors"}

\* accuracy_score lies in [0, 1]; r2_score may be negative.
Scores(tt) == IF IsClassification(tt) THEN 0..MaxScore ELSE (0 - MaxScore)..MaxScore

\* Only the router's training functions are given the ConnectionManager.
Publishes(fn) == fn # "train_auto_ml"

NotFitted == [state |-> "none", score |-> 0]

\* results.append({... 'score': float(accuracy) | float(r2)})
OkEntry(name, score) == [name |-> name, score |-> score, error |-> FALSE]

\* results.append({'name': name, 'error': str(e), 'score': 0 | float('-inf')})
ErrorEntry(name, tt) ==
    [name |-> name, score |-> IF IsClassification(tt) THEN 0 ELSE NegInf,
     error |-> TRUE]

Reverse(s) == [k \in 1..Len(s) |-> s[Len(s) + 1 - k]]

\* One insertion of a stable ascending sort: x goes behind every element
\* whose key is not greater.
RECURSIVE InsertByScore(_, _)
InsertByScore(s, x) ==
    IF s = <<>> THEN <<x>>
    ELSE IF x.score < Head(s).score THEN <<x>> \o s
    ELSE <<Head(s)>> \o InsertByScore(Tail(s), x)

RECURSIVE StableAscending(_)
StableAscending(s) ==
    IF s = <<>> THEN <<>>
    ELSE InsertByScore(StableAscending(SubSeq(s, 1, Len(s) - 1)), s[Len(s)])

\* A descending sort that puts equal keys in reverse order.
SortByScoreReversingTies(s) == Reverse(StableAscending(s))

\* results.sort(key=lambda x: x.get('score', 0), reverse=True): list.sort
\* reverses the list, sorts it stably in ascending order and reverses it
\* again, so that equal keys keep their original order.
SortByScore(s) == Reverse(StableAscending(Reverse(s)))

\* max(models_results, key=lambda x: x['score']): the first entry among
\* those with the largest score.
RECURSIVE MaxByScore(_)
MaxByScore(s) ==
    IF Len(s) = 1 THEN s[1]
    ELSE LET m == MaxByScore(Tail(s))
         IN  IF m.score > Head(s).score THEN m ELSE Head(s)

Event(type, model, stg) == [type |-> type, model |-> model, stage |-> stg]

Publish(fn, evs) == events' = IF Publishes(fn) THEN events \o evs ELSE events

\* Every entry of the list, error entries too.
SuccessNamesWithErrors(s) == s

\* Names of the entries that carry no 'error' key, in list order.
SuccessNames(s) == SelectSeq(s, LAMBDA e : ~e.error)

NamesOf(s) == [k \in 1..Len(s) |-> s[k].name]

\* except Exception of the router's training functions: an error message is
\* broadcast and the exception re-raised; MLService.train_auto_ml has no
\* handler. The Run row is not written on this path.
TrainExcept(fn) ==
    /\ tpc' = "raised"
    /\ Publish(fn, <<Event("error", NULL, NULL)>>)

\* The invocation up to the commit of its Run row: the project and its
\* datasets are looked up (ValueError when missing), the data prepared and
\* the Run committed with status RUNNING; progress takes the column default.
train_invoke(fn, tt) ==
    /\ tpc = "idle"
    /\ tfn' = fn
    /\ task_type' = tt
    /\ \E found \in BOOLEAN :
        IF found
        THEN /\ trun' = [status |-> "RUNNING",
                         current_task |->
                            IF fn = "train_auto_ml_with_custom_params"
                            THEN "Training models with custom parameters"
                            ELSE "Training models",
                         progress |-> 0,
                         started_at |-> NULL, finished_at |-> NULL]
             /\ Publish(fn, <<Event("progress", NULL, "initializing"),
                              Event("progress", NULL, "loading_data"),
                              Event("progress", NULL, "preprocessing"),
                              Event("progress", NULL, "creating_run"),
                              Event("progress", NULL, "training_models")>>)
             /\ tpc' = "training"
             /\ ti' = 1
        ELSE /\ Publish(fn, <<Event("progress", NULL, "initializing"),
                              Event("error", NULL, NULL)>>)
             /\ tpc' = "raised"
             /\ UNCHANGED <<trun, ti>>
    /\ UNCHANGED <<results, fitted, pending, metas, uploaded, wfail, best_model>>
    /\ UNCHANGED <<pvars, cvars, svars>>

\* A raising fit is caught inside the loop body, so the loop is left only
\* behind the last family of the catalog.
LoopEndsAfterError(raise) ==
    raise \/ ti = Len(Catalog(tfn, task_type))

LoopEnds(raise) ==
    ti = Len(Catalog(tfn, task_type))

\* One iteration of the family loop of train_models_with_progress,
\* train_models_with_custom_params or MLService._train_models: the family is
\* fitted and scored, or its fit raises and an error entry is appended; the
\* last iteration is followed by the sort and the return.
train_family ==
    /\ tpc = "training"
    /\ LET cat == Catalog(tfn, task_type)
           name == cat[ti]
       IN  \E raise \in BOOLEAN, sc \in Scores(task_type) :
            LET entry == IF raise THEN ErrorEntry(name, task_type)
                         ELSE OkEntry(name, sc)
                appended == Append(results, entry)
            IN  /\ fitted' = [fitted EXCEPT ![name] =
                                IF raise THEN [state |-> "raised", score |-> 0]
                                ELSE [state |-> "ok", score |-> sc]]
                /\ Publish(tfn, <<Event("model_progress", name, "start"),
                                  Event("model_progress", name,
                                        IF raise THEN "error" ELSE "complete")>>)
                /\ IF LoopEnds(raise)
                   THEN /\ results' = SortByScore(appended)
                        /\ tpc' = "trained"
                   ELSE /\ results' = appended
                        /\ tpc' = "training"
                /\ ti' = ti + 1
    /\ UNCHANGED <<tfn, task_type, trun, pending, metas, uploaded, wfail,
                   best_model>>
    /\ UNCHANGED <<pvars, cvars, svars>>

\* for model_result in models_results: every entry without 'error' is
\* pickled and uploaded, then its ModelMeta row added to the Session. Upload
\* number f raises (f = 0: none does).
save_models ==
    /\ tpc = "trained"
    /\ LET ok == NamesOf(SuccessNames(results))
       IN  \E f \in 0..Len(ok) :
            IF f = 0
            THEN /\ uploaded' = uploaded \cup {ok[k] : k \in 1..Len(ok)}
                 /\ pending' = ok
                 /\ tpc' = "uploaded"
                 /\ Publish(tfn, <<Event("progress", NULL, "saving_models")>>)
                 /\ UNCHANGED wfail
            ELSE /\ uploaded' = uploaded \cup {ok[k] : k \in 1..(f - 1)}
                 /\ pending' = SubSeq(ok, 1, f - 1)
                 /\ wfail' = TRUE
                 /\ tpc' = "raised"
                 /\ Publish(tfn, <<Event("progress", NULL, "saving_models"),
                                   Event("error", NULL, NULL)>>)
    /\ UNCHANGED <<tfn, task_type, trun, ti, results, fitted, metas, best_model>>
    /\ UNCHANGED <<pvars, cvars, svars>>

\* db.commit() of the added ModelMeta rows; with rows to flush it may fail.
commit_models ==
    /\ tpc = "uploaded"
    /\ \E ok \in BOOLEAN :
        IF ok \/ pending = <<>>
        THEN /\ metas' = metas \o pending
             /\ pending' = <<>>
             /\ tpc' = "saved"
             /\ UNCHANGED <<events, wfail>>
        ELSE /\ wfail' = TRUE
             /\ TrainExcept(tfn)
             /\ UNCHANGED <<metas, pending>>
    /\ UNCHANGED <<tfn, task_type, trun, ti, results, fitted, uploaded,
                   best_model>>
    /\ UNCHANGED <<pvars, cvars, svars>>

\* run.status = "COMPLETED"; run.finished_at = func.now(); db.commit()
complete_run ==
    /\ tpc = "saved"
    /\ trun' = [trun EXCEPT !.status = "COMPLETED", !.finished_at = "now"]
    /\ tpc' = "completed"
    /\ UNCHANGED <<tfn, task_type, ti, results, fitted, pending, metas,
                   uploaded, events, wfail, best_model>>
    /\ UNCHANGED <<pvars, cvars, svars>>

\* The training-results document is uploaded, the completion is broadcast
\* and the summary returned with best_model.
store_results ==
    /\ tpc = "completed"
    /\ \E ok \in BOOLEAN :
        IF ok
        THEN /\ uploaded' = uploaded \cup {"training_results"}
             /\ best_model' = MaxByScore(results).name
             /\ Publish(tfn, <<Event("progress", NULL, "completed")>>)
             /\ tpc' = "returned"
             /\ UNCHANGED wfail
        ELSE /\ wfail' = TRUE
             /\ TrainExcept(tfn)
             /\ UNCHANGED <<uploaded, best_model>>
    /\ UNCHANGED <<tfn, task_type, trun, ti, results, fitted, pending, metas>>
    /\ UNCHANGED <<pvars, cvars, svars>>

TrainNext ==
    \/ \E fn \in TrainFns, tt \in TaskTypes : train_invoke(fn, tt)
    \/ train_family
    \/ save_models
    \/ commit_models
    \/ complete_run
    \/ store_results

----------------------------------------------------------------------------
\* ConnectionManager: the registry of progress-channel observers

\* Sockets a client may open, and broadcast calls the publisher makes.
MaxSockets == 2

MaxMessages == 2

Sockets == 1..MaxSockets

Projects == {"P1", "P2"}

Message(p, n) == [project |-> p, id |-> n]

Range(s) == {s[k] : k \in 1..Len(s)}

\* list.remove(x): the first occurrence of x is taken out.
Remove(s, x) ==
    LET k == CHOOSE j \in 1..Len(s) :
                 s[j] = x /\ \A i \in 1..(j - 1) : s[i] # x
    IN  SubSeq(s, 1, k - 1) \o SubSeq(s, k + 1, Len(s))

\* The latest broadcast call: its project_id and its message.
bproj == pubs[Len(pubs)]

bmsg == Message(bproj, Len(pubs))

NoResult == [called |-> FALSE, again |-> FALSE, raised |-> FALSE]

\* Number of broadcast calls that have returned.
Returned == IF bpc \in {"sending", "hung"} THEN Len(pubs) - 1 ELSE Len(pubs)

\* What connect hands to a socket it registers: the last message published
\* to its project.
BacklogOfScope(p) ==
    IF \E n \in 1..Returned : pubs[n] = p
    THEN LET n == CHOOSE i \in 1..Returned :
                      pubs[i] = p /\ \A j \in (i + 1)..Returned : pubs[j] # p
         IN  <<Message(p, n)>>
    ELSE <<>>

\* connect keeps no message: a registered socket starts with nothing.
Backlog(p) == <<>>

\* Every registered socket, whatever its project.
RecipientsOfAnyScope(p) ==
    IF active_connections[p] = <<>> THEN <<>>
    ELSE active_connections["P1"] \o active_connections["P2"]

\* for connection in self.active_connections[project_id]
Recipients(p) == active_connections[p]

\* The message is put in front of what the socket already got.
DeliverInFront(box, m) == <<m>> \o box

\* await connection.send_json(message) that completes: the socket's client
\* gets the message behind those it got before.
Deliver(box, m) == Append(box, m)

\* connect: await websocket.accept(), then the socket is appended to the
\* list of its project, which is created when the dict has no such key. When
\* accept raises, the handler ends and nothing is registered.
connect(p, w) ==
    /\ sock[w] = "new"
    /\ \E accepted \in BOOLEAN :
        IF accepted
        THEN /\ active_connections' =
                    [active_connections EXCEPT ![p] = Append(@, w)]
             /\ dict_keys' = dict_keys \cup {p}
             /\ sock' = [sock EXCEPT ![w] = "open"]
             /\ sproj' = [sproj EXCEPT ![w] = p]
             /\ inbox' = [inbox EXCEPT ![w] = Backlog(p)]
        ELSE /\ sock' = [sock EXCEPT ![w] = "closed"]
             /\ UNCHANGED <<active_connections, dict_keys, sproj, inbox>>
    /\ disconnect_result' = NoResult
    /\ UNCHANGED <<pubs, bpc, bidx, bcur, blive, bsnap, bfailed>>
    /\ UNCHANGED <<pvars, tvars, svars>>

\* The keys of the dict when an emptied list is left in it.
KeepEmptied(ks, p, list) == ks

\* if not self.active_connections[project_id]: del ...: the key of a list
\* that became empty is deleted.
DeleteEmptied(ks, p, list) == IF list = <<>> THEN ks \ {p} ELSE ks

\* disconnect(project_id, websocket), called by the socket's handler on
\* WebSocketDisconnect or once more afterwards: with no key for the project
\* nothing happens; else list.remove takes the socket out, raising ValueError
\* when it is not in the list, and an emptied list is deleted from the dict.
\* A broadcast iterating the deleted list keeps that list object.
disconnect(p, w) ==
    /\ sock[w] \in {"open", "closed"}
    /\ sproj[w] = p
    /\ LET again == sock[w] = "closed"
           list == active_connections[p]
       IN  IF p \notin dict_keys
           THEN /\ disconnect_result' =
                       [called |-> TRUE, again |-> again, raised |-> FALSE]
                /\ UNCHANGED <<active_connections, dict_keys, blive>>
           ELSE IF w \in Range(list)
           THEN /\ active_connections' =
                       [active_connections EXCEPT ![p] = Remove(list, w)]
                /\ dict_keys' = DeleteEmptied(dict_keys, p, Remove(list, w))
                /\ blive' = IF bpc \in {"sending", "hung"} /\ bproj = p
                               /\ p \notin DeleteEmptied(dict_keys, p, Remove(list, w))
                            THEN FALSE ELSE blive
                /\ disconnect_result' =
                       [called |-> TRUE, again |-> again, raised |-> FALSE]
           ELSE /\ disconnect_result' =
                       [called |-> TRUE, again |-> again, raised |-> TRUE]
                /\ UNCHANGED <<active_connections, dict_keys, blive>>
    /\ sock' = [sock EXCEPT ![w] = "closed"]
    /\ UNCHANGED <<sproj, inbox, pubs, bpc, bidx, bcur, bsnap,
                   bfailed>>
    /\ UNCHANGED <<pvars, tvars, svars>>

\* broadcast(project_id, message) is called: without a key for the project
\* it returns at once, else the for loop hands out the first socket of the
\* project's list and awaits its send_json. The publisher awaits each call
\* before it makes the next.
broadcast_begin(p) ==
    /\ bpc \in {"idle", "returned"}
    /\ Len(pubs) < MaxMessages
    /\ pubs' = Append(pubs, p)
    /\ bsnap' = Range(active_connections[p])
    /\ IF p \notin dict_keys \/ Recipients(p) = <<>>
       THEN /\ bpc' = "returned"
            /\ bidx' = 0
            /\ bcur' = NULL
            /\ blive' = FALSE
       ELSE /\ bpc' = "sending"
            /\ bidx' = 1
            /\ bcur' = Recipients(p)[1]
            /\ blive' = TRUE
    /\ bfailed' = {}
    /\ disconnect_result' = NoResult
    /\ UNCHANGED <<active_connections, dict_keys, sock, sproj, inbox>>
    /\ UNCHANGED <<pvars, tvars, svars>>

\* The list the for loop of the broadcast iterates: the project's list as
\* it is now, or the emptied list the dict no longer holds.
Iterated == IF blive THEN Recipients(bproj) ELSE <<>>

\* The awaited send_json completes, raises (the error is logged and the
\* loop goes on) or never completes. Behind a send that ended, the iterator
\* hands out the element at its index and that send is awaited, or the
\* iterator is past the end of the list and broadcast returns.
broadcast_send ==
    /\ bpc = "sending"
    /\ \E outcome \in {"sent", "raised", "pending"} :
        /\ inbox' = IF outcome = "sent"
                    THEN [inbox EXCEPT ![bcur] = Deliver(@, bmsg)]
                    ELSE inbox
        /\ bfailed' = IF outcome = "raised"
                      THEN bfailed \cup {bcur} ELSE bfailed
        /\ IF outcome = "pending"
           THEN /\ bpc' = "hung"
                /\ UNCHANGED <<bidx, bcur>>
           ELSE IF bidx + 1 <= Len(Iterated)
           THEN /\ bpc' = "sending"
                /\ bidx' = bidx + 1
                /\ bcur' = Iterated[bidx + 1]
           ELSE /\ bpc' = "returned"
                /\ bidx' = bidx + 1
                /\ bcur' = NULL
    /\ disconnect_result' = NoResult
    /\ UNCHANGED <<active_connections, dict_keys, sock, sproj, pubs, blive, bsnap>>
    /\ UNCHANGED <<pvars, tvars, svars>>

ChannelNext ==
    \/ \E p \in Projects, w \in Sockets : connect(p, w)
    \/ \E p \in Projects, w \in Sockets : disconnect(p, w)
    \/ \E p \in Projects : broadcast_begin(p)
    \/ broadcast_send

----------------------------------------------------------------------------
\* train_models_with_progress: the pass of the family loop with its
\* parameter sweep

\* Combinations of a family's grid that are explored.
MaxCombos == 2

SweepCatalog == Catalog("train_auto_ml_with_progress", stt)

\* The param_grid of the catalog entry is not empty.
HasGrid(tt, name) ==
    IF IsClassification(tt) THEN name # "Naive Bayes"
    ELSE name # "Linear Regression"

\* best_score = -1 | float('-inf')
InitialBestScore(tt) == IF IsClassification(tt) THEN 0 - 1 ELSE NegInf

\* A combination also replaces the best of equal score.
BetterOrEqual(score, best) == score >= best

\* if score > best_score
Better(score, best) == score > best

\* if best_model == model: best_model.fit(X_train, y_train), which only the
\* classification branch has behind its sweep.
FitsDefaultAfterSweep(tt, kept) == IsClassification(tt) /\ kept = 0

\* The completion is broadcast and an error message behind it.
TerminatingEventsBoth(name, raise) ==
    <<Event("model_progress", name, "complete"),
      Event("model_progress", name, "error")>>

\* The last broadcast of a pass: the completion at the end of the try
\* block, or the error message of the except clause.
TerminatingEvents(name, raise) ==
    <<Event("model_progress", name, IF raise THEN "error" ELSE "complete")>>

NoEntry == [name |-> NULL, score |-> 0, error |-> FALSE]

\* The pass is over: the next family follows, or the loop is left.
PassEnds ==
    spc' = IF si = Len(SweepCatalog) THEN "done" ELSE "next"

\* except Exception of the pass: the error is broadcast and an error entry
\* appended.
FamilyExcept ==
    /\ sevents' = sevents \o TerminatingEvents(SweepCatalog[si], TRUE)
    /\ sentry' = ErrorEntry(SweepCatalog[si], stt)
    /\ PassEnds

sweep_invoke(tt) ==
    /\ spc = "idle"
    /\ stt' = tt
    /\ spc' = "next"
    /\ UNCHANGED <<si, sj, sbest_score, sbest_params, sbest_model,
                   tuning_results, default_fit, sentry, sevents>>
    /\ UNCHANGED <<pvars, tvars, cvars>>

\* The pass of the next family begins: its start is broadcast and, with a
\* grid, the start of the tuning; the sweep's variables are set.
family_start ==
    /\ spc = "next"
    /\ si < Len(SweepCatalog)
    /\ si' = si + 1
    /\ LET name == SweepCatalog[si + 1]
       IN  IF HasGrid(stt, name)
           THEN /\ sevents' =
                       <<Event("model_progress", name, "start"),
                         Event("hyperparameter_progress", name, "tuning_start")>>
                /\ spc' = "sweep"
           ELSE /\ sevents' = <<Event("model_progress", name, "start")>>
                /\ spc' = "fit"
    /\ sj' = 1
    /\ sbest_score' = InitialBestScore(stt)
    /\ sbest_params' = 0
    /\ sbest_model' = 0
    /\ tuning_results' = <<>>
    /\ default_fit' = "none"
    /\ sentry' = NoEntry
    /\ UNCHANGED stt
    /\ UNCHANGED <<pvars, tvars, cvars>>

\* One combination of the sweep: a copy of the estimator is fitted and
\* scored, recorded in tuning_results and kept when it is better; or it
\* raises, which is broadcast and the sweep goes on.
sweep_combo ==
    /\ spc = "sweep"
    /\ LET name == SweepCatalog[si]
       IN  \E raise \in BOOLEAN, score \in Scores(stt) :
            IF raise
            THEN /\ sevents' = Append(sevents,
                        Event("hyperparameter_progress", name, "iteration_error"))
                 /\ UNCHANGED <<tuning_results, sbest_score, sbest_params,
                                sbest_model>>
            ELSE /\ tuning_results' = Append(tuning_results,
                        [iteration |-> sj, score |-> score])
                 /\ IF Better(score, sbest_score)
                    THEN /\ sbest_score' = score
                         /\ sbest_params' = sj
                         /\ sbest_model' = sj
                    ELSE UNCHANGED <<sbest_score, sbest_params, sbest_model>>
                 /\ sevents' = Append(sevents,
                        Event("hyperparameter_progress", name,
                              "iteration_complete"))
    /\ sj' = sj + 1
    /\ spc' = IF sj = MaxCombos THEN "swept" ELSE "sweep"
    /\ UNCHANGED <<stt, si, default_fit, sentry>>
    /\ UNCHANGED <<pvars, tvars, cvars>>

\* Behind the sweep: the estimator of the catalog is fitted when it is
\* still the best_model (classification only), and the end of the tuning is
\* broadcast.
sweep_end ==
    /\ spc = "swept"
    /\ LET name == SweepCatalog[si]
       IN  \E raise \in BOOLEAN :
            IF FitsDefaultAfterSweep(stt, sbest_model) /\ raise
            THEN /\ default_fit' = "raised"
                 /\ FamilyExcept
            ELSE /\ default_fit' =
                        IF FitsDefaultAfterSweep(stt, sbest_model)
                        THEN "ok" ELSE default_fit
                 /\ sevents' = Append(sevents,
                        Event("hyperparameter_progress", name,
                              "tuning_complete"))
                 /\ spc' = "evaluate"
                 /\ UNCHANGED sentry
    /\ UNCHANGED <<stt, si, sj, sbest_score, sbest_params, sbest_model,
                   tuning_results>>
    /\ UNCHANGED <<pvars, tvars, cvars>>

\* A family without a grid: best_model = model; best_model.fit(...), then
\* the no_tuning message.
fit_without_grid ==
    /\ spc = "fit"
    /\ LET name == SweepCatalog[si]
       IN  \E raise \in BOOLEAN :
            IF raise
            THEN /\ default_fit' = "raised"
                 /\ FamilyExcept
            ELSE /\ default_fit' = "ok"
                 /\ sevents' = Append(sevents,
                        Event("hyperparameter_progress", name, "no_tuning"))
                 /\ spc' = "evaluate"
                 /\ UNCHANGED sentry
    /\ UNCHANGED <<stt, si, sj, sbest_score, sbest_params, sbest_model,
                   tuning_results>>
    /\ UNCHANGED <<pvars, tvars, cvars>>

\* best_model.predict, the metrics and the cross-validation, then the entry
\* and the completion message. predict of an estimator that was never
\* fitted raises; a kept temp_model scores what it scored in the sweep.
evaluate_family ==
    /\ spc = "evaluate"
    /\ LET name == SweepCatalog[si]
           unfitted == sbest_model = 0 /\ default_fit # "ok"
       IN  \E raise \in BOOLEAN, score \in Scores(stt) :
            IF unfitted \/ raise
            THEN FamilyExcept
            ELSE /\ sentry' = OkEntry(name, IF sbest_model # 0
                                            THEN sbest_score ELSE score)
                 /\ sevents' = sevents \o TerminatingEvents(name, FALSE)
                 /\ PassEnds
    /\ UNCHANGED <<stt, si, sj, sbest_score, sbest_params, sbest_model,
                   tuning_results, default_fit>>
    /\ UNCHANGED <<pvars, tvars, cvars>>

SweepNext ==
    \/ \E tt \in TaskTypes : sweep_invoke(tt)
    \/ family_start
    \/ sweep_combo
    \/ sweep_end
    \/ fit_without_grid
    \/ evaluate_family

----------------------------------------------------------------------------

PipelineNext ==
    \E r \in RunIds :
        \/ start_run(r)
        \/ send_stages(r)
        \/ task_call_rejected(r)
        \/ preprocess_data_start(r)
        \/ preprocess_data_put(r)
        \/ preprocess_data_commit(r)
        \/ preprocess_data_finish(r)
        \/ run_eda_start(r)
        \/ run_eda_put(r)
        \/ run_eda_commit(r)
        \/ run_eda_finish(r)
        \/ train_models_start(r)
        \/ train_models_put(r)
        \/ train_models_commit(r)
        \/ train_models_finish(r)
        \/ finalize_run_start(r)
        \/ finalize_run_put(r)
        \/ finalize_run_finish(r)
        \/ start_eda(r)
        \/ run_eda_sync_start(r)
        \/ run_eda_sync_load(r)
        \/ run_eda_sync_read(r)
        \/ run_eda_sync_summary(r)
        \/ run_eda_sync_put(r)
        \/ run_eda_sync_chart(r)
        \/ run_eda_sync_finish(r)
        \/ start_eda_except(r)

\* No Run row, no queued task and no training invocation yet.
Init ==
    /\ run = [r \in RunIds |-> NoRun]
    /\ pc = [r \in RunIds |-> "none"]
    /\ stage = [r \in RunIds |-> 0]
    /\ nargs = [r \in RunIds |-> 0]
    /\ link = [r \in RunIds |-> "none"]
    /\ session = [r \in RunIds |-> "closed"]
    /\ logs = [r \in RunIds |-> <<>>]
    /\ artifacts = [r \in RunIds |-> {}]
    /\ blobs = [r \in RunIds |-> {}]
    /\ executed = [r \in RunIds |-> <<>>]
    /\ raised = [r \in RunIds |-> NULL]
    /\ response = NoResponse
    /\ tfn = NULL
    /\ task_type = NULL
    /\ tpc = "idle"
    /\ trun = NoRun
    /\ ti = 0
    /\ results = <<>>
    /\ fitted = [n \in Families |-> NotFitted]
    /\ pending = <<>>
    /\ metas = <<>>
    /\ uploaded = {}
    /\ events = <<>>
    /\ wfail = FALSE
    /\ best_model = NULL
    /\ active_connections = [p \in Projects |-> <<>>]
    /\ dict_keys = {}
    /\ sock = [w \in Sockets |-> "new"]
    /\ sproj = [w \in Sockets |-> NULL]
    /\ inbox = [w \in Sockets |-> <<>>]
    /\ pubs = <<>>
    /\ bpc = "idle"
    /\ bidx = 0
    /\ bcur = NULL
    /\ blive = FALSE
    /\ bsnap = {}
    /\ bfailed = {}
    /\ disconnect_result = NoResult
    /\ stt = NULL
    /\ spc = "idle"
    /\ si = 0
    /\ sj = 0
    /\ sbest_score = 0
    /\ sbest_params = 0
    /\ sbest_model = 0
    /\ tuning_results = <<>>
    /\ default_fit = "none"
    /\ sentry = NoEntry
    /\ sevents = <<>>

SpecPipeline == Init /\ [][PipelineNext]_vars

SpecTrain == Init /\ [][TrainNext]_vars

SpecChannel == Init /\ [][ChannelNext]_vars

SpecSweep == Init /\ [][SweepNext]_vars

\* No Run was requested of the stage pipeline yet.
PipelineUntouched ==
    /\ \A r \in RunIds : pc[r] = "none"
    /\ response = NoResponse

\* The stage pipeline and the AutoML training write the same stores and
\* share no state: either of them runs from the start.
StoreNext ==
    \/ tpc = "idle" /\ PipelineNext
    \/ PipelineUntouched /\ TrainNext

SpecStore == Init /\ [][StoreNext]_vars

\* The event loop resumes the broadcast coroutine whenever it can run;
\* clients connect and disconnect as they please.
SpecChannelLive ==
    Init /\ [][ChannelNext]_vars /\ WF_vars(broadcast_send)

----------------------------------------------------------------------------
\* Properties

Terminal == {"COMPLETED", "FAILED"}

\* C1: the values committed to Run.progress of a Run driven through the
\* stage chain never decrease from one committed write to the next.
C1_ProgressNeverDecreases ==
    [][\A r \in RunIds : run'[r].progress >= run[r].progress]_vars

\* C2: once the committed status of a Run is COMPLETED or FAILED, no later
\* stage task or handler failure path changes it.
C2_TerminalStatusIsFinal ==
    [][\A r \in RunIds :
          run[r].status \in Terminal => run'[r].status = run[r].status]_vars

\* C3: every Run whose committed status is COMPLETED has progress 1.0 and
\* no current_task, whichever operation completed it.
C3_CompletedMeansFullProgress ==
    /\ \A r \in RunIds :
          run[r].status = "COMPLETED" =>
              run[r].progress = 100 /\ run[r].current_task = NULL
    /\ trun.status = "COMPLETED" =>
          trun.progress = 100 /\ trun.current_task = NULL

\* C4: when preprocess_data has completed and run_eda then raises, the Run
\* is FAILED with current_task 'EDA' and progress 0.25.
C4_SecondStageFailureKeepsMilestone ==
    \A r \in RunIds :
        raised[r] = "run_eda" =>
            /\ run[r].status = "FAILED"
            /\ run[r].current_task = "EDA"
            /\ run[r].progress = 25

HasErrorLog(r) == \E k \in 1..Len(logs[r]) : logs[r][k][1] = "ERROR"

StageTasks == {Chain[k] : k \in 1..Len(Chain)}

\* C5: when a stage task of the chain raises, an ERROR Log row of the Run
\* exists, the Run is FAILED and the chain has stopped.
C5_StageFailureIsLoggedAndFails ==
    \A r \in RunIds :
        raised[r] \in StageTasks =>
            /\ HasErrorLog(r)
            /\ run[r].status = "FAILED"
            /\ pc[r] = "raised"

\* C6: the chain start_run submits invokes every stage with arguments its
\* signature accepts, enters the stage bodies once each in the order
\* preprocess, analyze, train, finalize, and a finished chain leaves the
\* Run COMPLETED.
C6_StartRunChainRunsEveryStage ==
    \A r \in RunIds :
        link[r] = "partial" =>
            /\ pc[r] = "queued" => nargs[r] = Arity(stage[r])
            /\ executed[r] = SubSeq(Chain, 1, Len(executed[r]))
            /\ pc[r] = "finished" =>
                  executed[r] = Chain /\ run[r].status = "COMPLETED"

HasErrorEvent == \E k \in 1..Len(events) : events[k].type = "error"

\* C7: a training invocation that raises after its Run row was committed
\* RUNNING leaves the Run FAILED and has published an error event.
C7_RaisedTrainingFailsItsRun ==
    (tpc = "raised" /\ trun.status # "NONE") =>
        trun.status = "FAILED" /\ HasErrorEvent

\* C8: a Run is not left COMPLETED by an invocation one of whose storage or
\* database writes failed.
C8_NoCompletedAfterFailedWrite ==
    (tpc \in {"returned", "raised"} /\ wfail) => trun.status # "COMPLETED"

CatalogIndex(name) ==
    CHOOSE k \in 1..Len(Catalog(tfn, task_type)) :
        Catalog(tfn, task_type)[k] = name

\* C9: the list training returns is ordered by score descending, and
\* entries with equal scores appear in catalog order.
C9_RankedByScoreThenCatalogOrder ==
    (tpc = "trained") =>
        \A a, b \in 1..Len(results) :
            a < b =>
                /\ results[a].score >= results[b].score
                /\ results[a].score = results[b].score =>
                      CatalogIndex(results[a].name) < CatalogIndex(results[b].name)

\* Two families tie on the best score around a family that scored less.
C9_Witness ==
    /\ tpc = "trained"
    /\ LET cat == Catalog(tfn, task_type)
       IN  /\ results[1].name = cat[1]
           /\ results[2].name = cat[3]
           /\ ~results[1].error /\ ~results[2].error
           /\ results[1].score = results[2].score
           /\ fitted[cat[2]].state = "ok"
           /\ fitted[cat[2]].score < results[1].score

\* C10: when the fit of a family raises, every family of the catalog is
\* still evaluated and the returned list holds exactly one entry per
\* family: an error entry for a family whose fit raised, and for every
\* other family an entry with the score its fit obtained.
C10_FailureIsIsolated ==
    (tpc = "trained") =>
        LET cat == Catalog(tfn, task_type)
        IN  /\ Len(results) = Len(cat)
            /\ \A k \in 1..Len(cat) :
                /\ fitted[cat[k]].state # "none"
                /\ Cardinality({j \in 1..Len(results) :
                                    results[j].name = cat[k]}) = 1
                /\ \A j \in 1..Len(results) :
                      results[j].name = cat[k] =>
                          IF fitted[cat[k]].state = "raised"
                          THEN results[j].error
                          ELSE /\ ~results[j].error
                               /\ results[j].score = fitted[cat[k]].score

\* The second family of the catalog raised and all others were fitted.
C10_Witness ==
    /\ tpc = "trained"
    /\ LET cat == Catalog(tfn, task_type)
       IN  \A k \in 1..Len(cat) :
              fitted[cat[k]].state = IF k = 2 THEN "raised" ELSE "ok"

\* C11: in the ranked list training returns, every error entry stands behind
\* every successful entry, for both catalogs and whatever the scores.
C11_ErrorEntriesRankLast ==
    (tpc = "trained") =>
        \A a, b \in 1..Len(results) :
            (results[a].error /\ ~results[b].error) => b < a

AllFamiliesRaised ==
    /\ tpc \notin {"idle", "training"}
    /\ trun.status # "NONE"
    /\ \A k \in 1..Len(Catalog(tfn, task_type)) :
          fitted[Catalog(tfn, task_type)[k]].state = "raised"

\* C12: when every family of the catalog failed, the Run is never marked
\* COMPLETED and the finished invocation leaves it FAILED.
C12_AllFamiliesFailedFailsRun ==
    AllFamiliesRaised =>
        /\ trun.status # "COMPLETED"
        /\ tpc \in {"returned", "raised"} => trun.status = "FAILED"

Registered(w) == pubs # <<>> /\ w \in Range(active_connections[bproj])

Got(w) == pubs # <<>> /\ bmsg \in Range(inbox[w])

\* C13: when an observer disconnects or its send fails while broadcast
\* iterates, every other observer that was registered for the project when
\* the call was made and is still registered when it returns has received
\* the message.
C13_DisconnectDoesNotStarveOthers ==
    (bpc = "returned") =>
        \A w \in bsnap : (Registered(w) /\ w \notin bfailed) => Got(w)

\* C14: every message an observer has received was broadcast for the
\* project the observer is registered under.
C14_NoDeliveryAcrossProjects ==
    \A w \in Sockets :
        \A k \in 1..Len(inbox[w]) : inbox[w][k].project = sproj[w]

\* An observer of P1 got the message broadcast for P1, is still registered
\* and got nothing of the later broadcast for P2 that reached an observer.
C14_Witness ==
    /\ pubs = <<"P1", "P2">>
    /\ \E w, v \in Sockets :
        /\ sock[w] = "open" /\ sproj[w] = "P1"
        /\ inbox[w] = <<Message("P1", 1)>>
        /\ sproj[v] = "P2" /\ inbox[v] = <<Message("P2", 2)>>

\* C15: a disconnect call for an observer that was already removed raises
\* no error (and leaves the registry as it is).
C15_SecondDisconnectIsNoOp ==
    disconnect_result.again => ~disconnect_result.raised

\* C16: an observer whose delivery failed inside a broadcast call is no
\* longer in the registry when the call has returned.
C16_FailedObserverIsEvicted ==
    (bpc = "returned") => \A w \in bfailed : ~Registered(w)

OthersServed ==
    /\ bpc = "hung"
    /\ \A w \in bsnap \ {bcur} :
          (Registered(w) /\ w \notin bfailed) => Got(w)

\* C17: when the delivery to one observer never completes, the other
\* observers registered for the project when the call was made, as long as
\* they stay registered, do receive the message.
C17_SlowObserverDoesNotBlockOthers ==
    (bpc = "hung") ~> OthersServed

C19_AtMostOnceNoReplay ==
    [][\A w \in Sockets :
          \/ inbox'[w] = inbox[w]
          \/ sock[w] = "new" /\ inbox'[w] = <<>>
          \/ /\ bpc = "sending"
             /\ ~Got(w)
             /\ inbox'[w] = Append(inbox[w], bmsg)]_vars

\* Two broadcasts to one project: an observer that was not registered when
\* the second call was made has the second message only, another has both.
C19_Witness ==
    /\ Len(pubs) = 2
    /\ pubs[1] = pubs[2]
    /\ \E w, v \in Sockets :
        /\ w \notin bsnap
        /\ inbox[w] = <<Message(pubs[2], 2)>>
        /\ inbox[v] = <<Message(pubs[1], 1), Message(pubs[2], 2)>>

C21_RowsReferenceWrittenBlobs ==
    /\ \A r \in RunIds : artifacts[r] \subseteq blobs[r]
    /\ Range(metas) \subseteq uploaded

\* The chart's put raised in run_eda behind the summary's: the summary row
\* was committed by the except clause and no row references the chart.
C21_Witness ==
    \E r \in RunIds :
        /\ raised[r] = "run_eda"
        /\ session[r] = "active"
        /\ "eda_summary" \in artifacts[r]
        /\ "eda_chart" \notin blobs[r]
        /\ "eda_chart" \notin artifacts[r]

FittedFamilies == {n \in Families : fitted[n].state = "ok"}

\* C22: the ModelMeta rows of a Run that training completed are exactly one
\* row per family whose fit succeeded: none for a failed family and no two
\* rows of one name.
C22_OneRowPerSuccessfulFamily ==
    (trun.status = "COMPLETED") =>
        /\ Range(metas) = FittedFamilies
        /\ Len(metas) = Cardinality(FittedFamilies)

\* A completed invocation in which one family failed and the others have
\* their rows.
C22_Witness ==
    /\ tpc = "returned"
    /\ Cardinality(FittedFamilies) = Len(Catalog(tfn, task_type)) - 1
    /\ Len(metas) = Cardinality(FittedFamilies)

\* C26: when at least one family succeeded, the best_model an invocation
\* returns is the first entry of the ranked list and is a successful
\* family.
C26_BestModelIsFirstAndSuccessful ==
    (tpc = "returned" /\ FittedFamilies # {}) =>
        /\ best_model = results[1].name
        /\ ~results[1].error

\* C23: every Run whose committed status is COMPLETED or FAILED has
\* finished_at set.
C23_TerminalRunHasFinishedAt ==
    /\ \A r \in RunIds :
          run[r].status \in Terminal => run[r].finished_at # NULL
    /\ trun.status \in Terminal => trun.finished_at # NULL

FirstStageNames == {"Preprocessing", "EDA"}

\* C24: the committed write that takes a Run from PENDING to RUNNING sets
\* started_at and current_task to the first stage's name and has progress
\* 0.0.
C24_RunningWriteSetsStartedAt ==
    [][\A r \in RunIds :
          (run[r].status = "PENDING" /\ run'[r].status = "RUNNING") =>
              /\ run'[r].started_at # NULL
              /\ run'[r].current_task \in FirstStageNames
              /\ run'[r].progress = 0]_vars

\* C27: a stage task that raised and whose Log write failed on an unusable
\* Session has still marked its Run FAILED.
C27_FailedWhenLogWriteFails ==
    \A r \in RunIds :
        (raised[r] \in StageTasks /\ session[r] = "inactive") =>
            run[r].status = "FAILED"

Connected(p) == {w \in Sockets : sock[w] = "open" /\ sproj[w] = p}

\* C30: the registry holds, for every project, exactly the observers that
\* connected to it and have not disconnected, each once, and the dict has a
\* key for a project exactly when its list is not empty.
C30_RegistryMatchesConnected ==
    \A p \in Projects :
        /\ Range(active_connections[p]) = Connected(p)
        /\ Len(active_connections[p]) = Cardinality(Connected(p))
        /\ p \in dict_keys <=> active_connections[p] # <<>>

\* The last observer of P1 has left and its key is gone, while P2 keeps an
\* observer.
C30_Witness ==
    /\ \E w \in Sockets : sock[w] = "closed" /\ sproj[w] = "P1"
    /\ "P1" \notin dict_keys
    /\ Connected("P2") # {}

\* Greatest score recorded in a non-empty tuning_results.
MaxTuningScore ==
    CHOOSE m \in {tuning_results[k].score : k \in 1..Len(tuning_results)} :
        \A k \in 1..Len(tuning_results) : tuning_results[k].score <= m

\* First position of tuning_results that carries the greatest score.
FirstOfMaxScore ==
    CHOOSE k \in 1..Len(tuning_results) :
        /\ tuning_results[k].score = MaxTuningScore
        /\ \A h \in 1..(k - 1) : tuning_results[h].score < MaxTuningScore

\* C25: the combination a sweep keeps as best is, among the combinations
\* that were evaluated without raising, the first in enumeration order that
\* has the highest score; nothing is kept while none was evaluated.
C25_BestIsFirstOfHighestScore ==
    IF tuning_results = <<>>
    THEN sbest_params = 0 /\ sbest_model = 0
    ELSE /\ sbest_params = tuning_results[FirstOfMaxScore].iteration
         /\ sbest_model = sbest_params
         /\ sbest_score = MaxTuningScore

\* A sweep whose two combinations scored the same: the first is kept.
C25_Witness ==
    /\ spc = "swept"
    /\ Len(tuning_results) = 2
    /\ tuning_results[1].score = tuning_results[2].score
    /\ sbest_params = tuning_results[1].iteration

IsStartEvent(e) == e.type = "model_progress" /\ e.stage = "start"

IsTerminatingEvent(e) ==
    e.type = "model_progress" /\ e.stage \in {"complete", "error"}

PassFinished == spc \in {"next", "done"} /\ si > 0

\* The messages of the pass at catalog index i: all name that family, the
\* first is the start, the others are hyperparameter_progress messages
\* except the last one of a finished pass, which is the single completion
\* or error message.
BlockShape(evs, i, finished) ==
    /\ evs # <<>>
    /\ IsStartEvent(evs[1])
    /\ \A k \in 1..Len(evs) : evs[k].model = SweepCatalog[i]
    /\ \A k \in 2..Len(evs) :
          IF finished /\ k = Len(evs)
          THEN IsTerminatingEvent(evs[k])
          ELSE evs[k].type = "hyperparameter_progress"
    /\ finished => Len(evs) >= 2

\* C28: the messages of an invocation come in blocks, one per family in
\* catalog order: a block begins only when the block of the family before
\* is finished, begins with the one start message of the next family of the
\* catalog, goes on with hyperparameter_progress messages of that family
\* and ends with exactly one completion or error message.
C28_EventsComeInFamilyBlocks ==
    [][ /\ si' > 0 => BlockShape(sevents', si', PassFinished')
        /\ si' # si =>
              /\ si' = si + 1
              /\ si > 0 => PassFinished
              /\ Len(sevents') >= 1
              /\ \A k \in 2..Len(sevents') : ~IsStartEvent(sevents'[k])
        /\ (si' = si /\ si > 0) =>
              /\ Len(sevents') >= Len(sevents)
              /\ SubSeq(sevents', 1, Len(sevents)) = sevents
              /\ PassFinished => sevents' = sevents
      ]_vars

\* An invocation that is through its catalog, the last family's block
\* ending in its completion message behind hyperparameter_progress
\* messages.
C28_Witness ==
    /\ spc = "done"
    /\ si = Len(SweepCatalog)
    /\ Len(sevents) > 3
    /\ sevents[Len(sevents)].stage = "complete"

\* C29: a family with a grid whose every combination raised has its own
\* estimator fitted with the default parameters behind the sweep, for the
\* classification and for the regression catalog, and is an error entry
\* only if that fit or the evaluation raised.
C29_DefaultFitWhenEveryCombinationRaises ==
    (/\ PassFinished
     /\ HasGrid(stt, SweepCatalog[si])
     /\ tuning_results = <<>>) => default_fit # "none"

====
